---- MODULE Spec2Model ----
(***************************************************************************)
(* Model of protogenie/dispatch.py: the two-pass dispatch of corpus files  *)
(* into train/dev/test (split_files, _single_file_dispatch, _add_header)   *)
(* and the replay of a provenance log (files_from_memory).                 *)
(*                                                                         *)
(* A physical line is one of                                               *)
(*   "H"  the raw header line (line 0 of a file read with has_header),     *)
(*   "w"  a content line,                                                  *)
(*   "d"  a content line that carries the unit delimiter,                  *)
(*   "B"  a blank line (line.strip() is empty).                            *)
(* Line numbers are 0-based as in enumerate(f); files[i][n + 1] is line n. *)
(***************************************************************************)
EXTENDS Integers, Sequences, FiniteSets, TLC

\* ---------------------------------------------------------------- bounds
MaxFiles == 2
MaxTotalLines == 2
Postprocessings == 1

\* ------------------------------------------------------------- vocabulary
Labels == {"train", "dev", "test"}
SplitterKinds == {"line", "blank", "marker", "window", "delim"}
Window == 2
NoRange == [end |-> -1, dataset |-> "None"]
ZeroTokens == [d \in Labels |-> 0]

IsBlank(line) == line = "B"

\* ------------------------------------------------------------ the splitter
\* current_config.splitter(line): the boundary predicate, a callable object
\* with hidden state.  It answers [fire, state].
\*   line    every line is its own unit (isinstance LineSplitter)
\*   blank   a blank line ends a unit
\*   marker  a delimiter line ends a unit (stateless)
\*   window  counts the lines it has seen, a unit ends every Window lines
\*   delim   counts the delimiters it has seen, a unit ends on every odd one
SplitterReset == 0

SplitterCall(kind, st, line) ==
    CASE kind = "line"   -> [fire |-> TRUE, state |-> st]
      [] kind = "blank"  -> [fire |-> IsBlank(line), state |-> st]
      [] kind = "marker" -> [fire |-> line = "d", state |-> st]
      [] kind = "window" -> IF st + 1 >= Window
                            THEN [fire |-> TRUE, state |-> 0]
                            ELSE [fire |-> FALSE, state |-> st + 1]
      [] kind = "delim"  -> IF line = "d"
                            THEN [fire |-> (st + 1) % 2 = 1, state |-> (st + 1) % 2]
                            ELSE [fire |-> FALSE, state |-> st]

IsLineSplitter(kind) == kind = "line"

\* ------------------------------------------------------------ pass 1
\* for line_no, line in enumerate(f): skip the header, sum the predicate.
\* (faulty variant: the header flag is not consulted, line 0 is read as content)
HeaderNeverSkipped(line_no, hasHeader) == FALSE

HeaderSkipped(line_no, hasHeader) == line_no = 0 /\ hasHeader

RECURSIVE CountUnits(_, _, _, _, _, _)
CountUnits(file, n, hasHeader, kind, st, acc) ==
    IF n >= Len(file) THEN [units |-> acc, state |-> st]
    ELSE IF HeaderSkipped(n, hasHeader)
         THEN CountUnits(file, n + 1, hasHeader, kind, st, acc)
         ELSE LET c == SplitterCall(kind, st, file[n + 1])
              IN  CountUnits(file, n + 1, hasHeader, kind, c.state,
                             acc + (IF c.fire THEN 1 ELSE 0))

\* build_dataset_dispatch_list: a sequence of units_count labels.
RECURSIVE DispatchLists(_)
DispatchLists(n) ==
    IF n = 0 THEN {<<>>}
    ELSE {<<d>> \o p : d \in Labels, p \in DispatchLists(n - 1)}

\* ------------------------------------------------------------ pass 2 helpers
\* "{}-{}".format(start, end): the text of a range, as its "-"-separated
\* parts; a part that is no number (the empty part a minus sign leaves) is -1.
FormatPart(n) == IF n < 0 THEN <<-1, -n>> ELSE <<n>>
FormatRange(start, end) == FormatPart(start) \o FormatPart(end)

\* (faulty variant: the pending blanks are left out of the start of the range)
RangeStartWithoutBlanks(lineNo, sentenceLen, blankCount) == lineNo - sentenceLen + 1

\* line_no - len(sentence) + 1 - blanks
RangeStart(lineNo, sentenceLen, blankCount) == lineNo - sentenceLen + 1 - blankCount

\* (faulty variant: the row is written with the fallback label, not the unit's)
MemoryRowFallbackLabel(file, start, end, dataset) ==
    [arity |-> 3, file |-> file, line_range |-> FormatRange(start, end),
     dataset |-> "train"]

\* memory.writerow([file, "{}-{}".format(start, end), dataset])
MemoryRow(file, start, end, dataset) ==
    [arity |-> 3, file |-> file, line_range |-> FormatRange(start, end),
     dataset |-> dataset]

\* [x for x in sentence if x.strip()]
Strip(file, sentence) == SelectSeq(sentence, LAMBDA n : ~IsBlank(file[n + 1]))

\* _add_header: every dataset with tokens gets the header line in front.
HeaderMark(headerLine) ==
    CASE headerLine = "mapped" -> -1
      [] headerLine = "config" -> -2
      [] OTHER -> -3

HeaderTargets(tokens) == {d \in Labels : tokens[d] # 0}

AddHeader(output, f, tokens, headerLine) ==
    [g \in DOMAIN output |->
        IF g # f THEN output[g]
        ELSE [d \in Labels |->
                IF d \in HeaderTargets(tokens)
                THEN <<HeaderMark(headerLine)>> \o output[g][d]
                ELSE output[g][d]]]

\* add_sentence: the lines of the unit are appended to the dataset's file.
AddSentence(output, f, dataset, sentence) ==
    [output EXCEPT ![f][dataset] = @ \o sentence]


\* ------------------------------------------------------------ the inputs
Alphabet(kind) == IF kind \in {"marker", "delim"} THEN {"w", "d", "B"} ELSE {"w", "B"}

RECURSIVE Contents(_, _)
Contents(n, alphabet) ==
    IF n = 0 THEN {<<>>}
    ELSE {<<l>> \o c : l \in alphabet, c \in Contents(n - 1, alphabet)}

\* the lists of k files, each with a content line at least, whose content
\* lines number at most total
RECURSIVE FileLists(_, _, _, _)
FileLists(k, total, alphabet, hasHeader) ==
    IF k = 0 THEN {<<>>}
    ELSE UNION {
           {<<(IF hasHeader THEN <<"H">> ELSE <<>>) \o c>> \o rest :
                c \in Contents(n, alphabet),
                rest \in FileLists(k - 1, total - n, alphabet, hasHeader)} :
           n \in 1..(total - (k - 1))}

\* ------------------------------------------------------------ the state
VARIABLES
    files,            \* glob.glob(...) over config.corpora: the source files
    has_header,       \* current_config.reader.has_header
    splitter,         \* the class of current_config.splitter
    config_memory,    \* config.memory is set
    stage,            \* "split": split_files; "given": between the runs;
                      \* "memory", "new": the two loops of files_from_memory
    pc,               \* where the running generator stands
    fi,               \* position of the file loop
    splitter_state,   \* the hidden state of current_config.splitter
    unit_counts,
    target_dataset,
    training_tokens,
    sentence,         \* the buffered lines, by line number
    blanks,
    line_no,          \* the next line enumerate(f) hands out
    header_line,      \* "empty" [], "mapped" from line 0, "config" reader.header
    created_files,    \* the datasets whose output file _add_header returned
    memory,           \* the rows written to the provenance log
    memory_open,      \* memory_file is open: opened, memory_file.close() not run
    out,              \* the output folder: per source file and dataset, the lines
    emitted,          \* history of the add_sentence calls of this run
    original,         \* what the split_files run emitted and yielded
    yielded,          \* the elements the consumer has received from this run
    post,             \* per output file, how often a post-processing was applied
    err,              \* the exception that ended the run
    err_names,        \* the files the exception's message names
    rows,             \* the rows memory_reader has still to deliver
    dispatcher,       \* per file, lines: start -> _Range
    current_set,
    new_files,
    test_ratio,       \* "unset" before files_from_memory reads it
    dev_ratio         \* the dev_ratio given along with test_ratio

vars == <<files, has_header, splitter, config_memory, stage, pc, fi,
          splitter_state, unit_counts, target_dataset, training_tokens,
          sentence, blanks, line_no, header_line, created_files, memory,
          memory_open, out, emitted, original, yielded, post, err, err_names,
          rows, dispatcher, current_set, new_files, test_ratio, dev_ratio>>

config == <<files, has_header, splitter, config_memory>>
replay == <<rows, dispatcher, current_set, new_files, test_ratio, dev_ratio,
           original>>

FileIds == 1..Len(files)
EmptyFolder == [f \in FileIds |-> [d \in Labels |-> <<>>]]
NoPost == [f \in FileIds |-> [d \in Labels |-> 0]]

Init ==
    /\ has_header \in BOOLEAN
    /\ splitter \in SplitterKinds
    /\ config_memory = TRUE
    /\ \E k \in 1..MaxFiles :
         files \in FileLists(k, MaxTotalLines, Alphabet(splitter), has_header)
    /\ stage = "split"
    /\ pc = "start"
    /\ fi = 0
    /\ splitter_state = SplitterReset
    /\ unit_counts = 0
    /\ target_dataset = <<>>
    /\ training_tokens = ZeroTokens
    /\ sentence = <<>>
    /\ blanks = 0
    /\ line_no = 0
    /\ header_line = "empty"
    /\ created_files = {}
    /\ memory = <<>>
    /\ memory_open = FALSE
    /\ out = EmptyFolder
    /\ emitted = <<>>
    /\ original = [units |-> <<>>, yielded |-> <<>>]
    /\ yielded = <<>>
    /\ post = NoPost
    /\ err = "none"
    /\ err_names = {}
    /\ rows = <<>>
    /\ dispatcher = [f \in FileIds |-> <<>>]
    /\ current_set = NoRange
    /\ new_files = <<>>
    /\ test_ratio = "unset"
    /\ dev_ratio = "unset"

\* (faulty variant: the line is put in front of the buffered lines)
SentencePrepend(buffer, lineNo) == <<lineNo>> \o buffer

\* sentence.append(line)
SentenceAppend(buffer, lineNo) == Append(buffer, lineNo)

\* (faulty variant: the remaining sentence always goes to train)
RemainingAlwaysTrain(plan) == "train"

\* lines 138-142: try: dataset = target_dataset.pop(0) except: dataset = "train"
RemainingDataset(plan) == IF plan # <<>> THEN Head(plan) ELSE "train"

\* the file the running _single_file_dispatch was called with
CurFile == IF stage = "new" THEN new_files[fi] ELSE fi
\* the number of files of the loop that calls _single_file_dispatch
LoopLen == IF stage = "new" THEN Len(new_files) ELSE Len(files)
\* the memory argument of the running _single_file_dispatch
HasMemory == stage = "split" /\ config_memory

\* ------------------------------------------------------------ split_files
\* lines 32-38: open the log, enter the file loop
SplitFilesStart ==
    /\ stage = "split" /\ pc = "start"
    /\ memory' = <<>>
    /\ memory_open' = config_memory
    /\ fi' = 1
    /\ pc' = "dispatch"
    /\ UNCHANGED <<config, stage, splitter_state, unit_counts, target_dataset,
                   training_tokens, sentence, blanks, line_no, header_line,
                   created_files, out, emitted, yielded, post, err, err_names,
                   replay>>

\* lines 66-103: pass 1, the dispatch list, the reset of the splitter
Pass1 ==
    /\ stage \in {"split", "new"} /\ pc = "dispatch"
    /\ LET c == CountUnits(files[CurFile], 0, has_header, splitter, splitter_state, 0)
       IN  /\ unit_counts' = c.units
           /\ target_dataset' \in DispatchLists(c.units)
    /\ splitter_state' = SplitterReset
    /\ training_tokens' = ZeroTokens
    /\ header_line' = "empty"
    /\ created_files' = {}
    /\ sentence' = <<>>
    /\ blanks' = 0
    /\ line_no' = 0
    /\ pc' = "pass2"
    /\ UNCHANGED <<config, stage, fi, memory, memory_open, out, emitted, yielded,
                   post, err, err_names, replay>>

\* lines 105-134: one iteration of the loop of pass 2
Pass2Line ==
    /\ stage \in {"split", "new"} /\ pc = "pass2"
    /\ line_no < Len(files[CurFile])
    /\ LET file == files[CurFile]
           line == file[line_no + 1]
       IN
       IF HeaderSkipped(line_no, has_header)
       THEN /\ header_line' = "mapped"
            /\ line_no' = line_no + 1
            /\ UNCHANGED <<pc, splitter_state, target_dataset, training_tokens,
                           sentence, blanks, memory, out, emitted, err>>
       ELSE IF line_no # 0 /\ IsBlank(line) /\ ~IsLineSplitter(splitter)
       THEN /\ blanks' = IF Len(sentence) > 0 THEN blanks + 1 ELSE blanks
            /\ line_no' = line_no + 1
            /\ UNCHANGED <<pc, header_line, splitter_state, target_dataset,
                           training_tokens, sentence, memory, out, emitted, err>>
       ELSE
         LET buffered == SentenceAppend(sentence, line_no)
             call == SplitterCall(splitter, splitter_state, line)
         IN
         /\ header_line' = IF line_no = 0 THEN "config" ELSE header_line
         /\ splitter_state' = call.state
         /\ IF ~call.fire
            THEN /\ sentence' = buffered
                 /\ line_no' = line_no + 1
                 /\ UNCHANGED <<pc, target_dataset, training_tokens, blanks,
                                memory, out, emitted, err>>
            ELSE IF target_dataset = <<>>
            THEN \* target_dataset.pop(0) raises IndexError
                 /\ sentence' = buffered
                 /\ pc' = "error"
                 /\ err' = "IndexError"
                 /\ UNCHANGED <<line_no, target_dataset, training_tokens, blanks,
                                memory, out, emitted>>
            ELSE
              LET dataset == Head(target_dataset)
                  start == RangeStart(line_no, Len(buffered), blanks)
                  unit == Strip(file, buffered)
              IN
              /\ target_dataset' = Tail(target_dataset)
              /\ memory' = IF HasMemory
                           THEN Append(memory, MemoryRow(CurFile, start, line_no, dataset))
                           ELSE memory
              /\ blanks' = IF HasMemory THEN 0 ELSE blanks
              /\ out' = AddSentence(out, CurFile, dataset, unit)
              /\ emitted' = Append(emitted,
                                   [file |-> CurFile, lines |-> unit, dataset |-> dataset])
              /\ training_tokens' = [training_tokens EXCEPT ![dataset] = @ + Len(unit)]
              /\ sentence' = <<>>
              /\ line_no' = line_no + 1
              /\ UNCHANGED <<pc, err>>
    /\ UNCHANGED <<config, stage, fi, unit_counts, created_files, memory_open,
                   yielded, post, err_names, replay>>

\* lines 136-162: the remaining sentence, _add_header, the yield
EndOfFile ==
    /\ stage \in {"split", "new"} /\ pc = "pass2"
    /\ line_no = Len(files[CurFile])
    /\ LET f == CurFile
           dataset == RemainingDataset(target_dataset)
           start == RangeStart(line_no - 1, Len(sentence), blanks)
           flush == sentence # <<>>
           tokens == IF flush
                     THEN [training_tokens EXCEPT ![dataset] = @ + Len(sentence)]
                     ELSE training_tokens
           written == IF flush THEN AddSentence(out, f, dataset, sentence) ELSE out
       IN
       /\ target_dataset' = IF flush /\ target_dataset # <<>>
                            THEN Tail(target_dataset) ELSE target_dataset
       /\ memory' = IF flush /\ HasMemory
                    THEN Append(memory, MemoryRow(f, start, line_no - 1, dataset))
                    ELSE memory
       /\ emitted' = IF flush
                     THEN Append(emitted,
                                 [file |-> f, lines |-> sentence, dataset |-> dataset])
                     ELSE emitted
       /\ training_tokens' = tokens
       /\ out' = AddHeader(written, f, tokens, header_line)
       /\ created_files' = HeaderTargets(tokens)
       /\ yielded' = Append(yielded, [file |-> f, tokens |-> tokens])
    /\ pc' = "yielded"
    /\ UNCHANGED <<config, stage, fi, splitter_state, unit_counts, sentence, blanks,
                   line_no, header_line, memory_open, post, err, err_names, replay>>

\* post_processings.apply on every created file, once per post-processing
ApplyPost(p, f, created) ==
    [p EXCEPT ![f] = [d \in Labels |->
                        IF d \in created THEN p[f][d] + Postprocessings ELSE p[f][d]]]

\* the consumer asks for the next element: lines 164-167, then the caller's
\* loop (lines 38-48 of split_files, lines 314-323 of files_from_memory)
ResumeDispatch ==
    /\ stage \in {"split", "new"} /\ pc = "yielded"
    /\ post' = ApplyPost(post, CurFile, created_files)
    /\ IF fi < LoopLen
       THEN /\ fi' = fi + 1
            /\ pc' = "dispatch"
            /\ UNCHANGED memory_open
       ELSE /\ pc' = "done"
            /\ memory_open' = IF stage = "split" THEN FALSE ELSE memory_open
            /\ UNCHANGED fi
    /\ UNCHANGED <<config, stage, splitter_state, unit_counts, target_dataset,
                   training_tokens, sentence, blanks, line_no, header_line,
                   created_files, memory, out, emitted, yielded, err, err_names,
                   replay>>

\* the consumer stops iterating: the generator is left suspended at its yield
ConsumerStops ==
    /\ pc = "yielded"
    /\ pc' = "stopped"
    /\ UNCHANGED <<config, stage, fi, splitter_state, unit_counts, target_dataset,
                   training_tokens, sentence, blanks, line_no, header_line,
                   created_files, memory, memory_open, out, emitted, yielded, post,
                   err, err_names, replay>>

\* ------------------------------------------------------------ files_from_memory
\* What may have happened to the log between the two runs: at a row of it
\*   "empty"  an empty row has got in     "short"  a row of two fields
\*   "long"   a row of four fields        "range"  a range that is no "int-int"
\*   "path"   a path no file of the configuration resolves to
DamageKinds == {"empty", "short", "long", "range", "path"}

Damage(row, kind) ==
    CASE kind = "empty" -> [row EXCEPT !.arity = 0]
      [] kind = "short" -> [row EXCEPT !.arity = 2]
      [] kind = "long"  -> [row EXCEPT !.arity = 4]
      [] kind = "range" -> [row EXCEPT !.line_range = <<row.line_range[1], -1>>]
      [] kind = "path"  -> [row EXCEPT !.file = 0]

InsertAt(log, i, row) == SubSeq(log, 1, i - 1) \o <<row>> \o SubSeq(log, i, Len(log))

\* an empty row is a blank line that has got between the rows; the other
\* kinds change a row in place
MemoryFiles(log) ==
    {log} \cup {IF k = "empty"
                THEN InsertAt(log, i, Damage(log[i], k))
                ELSE [log EXCEPT ![i] = Damage(log[i], k)] :
                    i \in 1..Len(log), k \in DamageKinds}

\* tuple(map(int, line_range.split("-"))) unpacked into start, end
RangeParses(parts) == Len(parts) = 2 /\ \A i \in 1..Len(parts) : parts[i] >= 0

\* current_file, line_range, dataset_target = line
RowUnpacks(row) == row.arity = 3

SetItem(dict, key, value) ==
    [k \in DOMAIN dict \cup {key} |-> IF k = key THEN value ELSE dict[k]]

\* (faulty variant: no test of the path, dispatcher[real_path] raises on a
\* path that is no key and ends the loop)
RECURSIVE BuildIndexUnguarded(_, _, _)
BuildIndexUnguarded(log, i, index) ==
    IF i > Len(log) THEN [ok |-> TRUE, index |-> index]
    ELSE LET row == log[i] IN
         IF row.arity = 0 THEN BuildIndexUnguarded(log, i + 1, index)
         ELSE IF ~RowUnpacks(row) THEN [ok |-> FALSE, index |-> index]
         ELSE IF ~RangeParses(row.line_range) THEN [ok |-> FALSE, index |-> index]
         ELSE IF row.file \notin DOMAIN index THEN [ok |-> FALSE, index |-> index]
         ELSE BuildIndexUnguarded(log, i + 1,
                [index EXCEPT ![row.file] =
                    SetItem(@, row.line_range[1],
                            [end |-> row.line_range[2], dataset |-> row.dataset])])

\* lines 222-230: the index of the rows, or the ValueError that ends the loop
RECURSIVE BuildIndex(_, _, _)
BuildIndex(log, i, index) ==
    IF i > Len(log) THEN [ok |-> TRUE, index |-> index]
    ELSE LET row == log[i] IN
         IF row.arity = 0 THEN BuildIndex(log, i + 1, index)
         ELSE IF ~RowUnpacks(row) THEN [ok |-> FALSE, index |-> index]
         ELSE IF row.file \notin DOMAIN index THEN BuildIndex(log, i + 1, index)
         ELSE IF ~RangeParses(row.line_range) THEN [ok |-> FALSE, index |-> index]
         ELSE BuildIndex(log, i + 1,
                [index EXCEPT ![row.file] =
                    SetItem(@, row.line_range[1],
                            [end |-> row.line_range[2], dataset |-> row.dataset])])

\* lines 234-237: if not dispatching.lines: new_files.append(...); pass
NewFilesAt(f, index, known) ==
    IF DOMAIN index[f] = {} THEN Append(known, f) ELSE known

\* Between the runs: the file that files_from_memory will be given as
\* memory_file holds the rows split_files wrote, or a damaged copy of them.
MemoryFileGiven ==
    /\ stage = "split" /\ pc \in {"done", "stopped", "error"}
    /\ config_memory
    /\ rows' \in MemoryFiles(memory)
    /\ stage' = "given"
    /\ pc' = "start"
    /\ UNCHANGED <<config, fi, splitter_state, unit_counts, target_dataset,
                   training_tokens, sentence, blanks, line_no, header_line,
                   created_files, memory, memory_open, out, emitted, original,
                   yielded, post, err, err_names, dispatcher, current_set,
                   new_files, test_ratio, dev_ratio>>

\* lines 212-249: read the log, build the index, enter the file loop.
\* The run writes into an output folder of its own and gets the splitter as
\* the configuration builds it.
FilesFromMemoryStart ==
    /\ stage = "given" /\ pc = "start"
    /\ LET built == BuildIndex(rows, 1, [f \in FileIds |-> <<>>]) IN
         /\ dispatcher' = built.index
         /\ IF built.ok
            THEN /\ pc' = "replay"
                 /\ err' = "none"
                 /\ fi' = 1
                 /\ new_files' = NewFilesAt(1, built.index, <<>>)
            ELSE /\ pc' = "error"
                 /\ err' = "ValueError"
                 /\ fi' = 0
                 /\ new_files' = <<>>
    /\ rows' = <<>>
    /\ stage' = "memory"
    /\ original' = [units |-> emitted, yielded |-> yielded]
    /\ emitted' = <<>>
    /\ yielded' = <<>>
    /\ out' = EmptyFolder
    /\ post' = NoPost
    /\ err_names' = {}
    /\ splitter_state' = SplitterReset
    /\ unit_counts' = 0
    /\ target_dataset' = <<>>
    /\ training_tokens' = ZeroTokens
    /\ header_line' = "empty"
    /\ created_files' = {}
    /\ sentence' = <<>>
    /\ blanks' = 0
    /\ current_set' = NoRange
    /\ line_no' = 0
    /\ UNCHANGED <<config, memory, memory_open, test_ratio, dev_ratio>>

\* lines 252-282: one iteration of the loop over the lines of a file
ReplayLine ==
    /\ stage = "memory" /\ pc = "replay"
    /\ line_no < Len(files[fi])
    /\ LET file == files[fi]
           line == file[line_no + 1]
           lines == dispatcher[fi]
           buffered == SentenceAppend(sentence, line_no)
       IN
       IF HeaderSkipped(line_no, has_header)
       THEN /\ header_line' = "mapped"
            /\ UNCHANGED <<sentence, blanks, current_set, training_tokens, out,
                           emitted>>
       ELSE IF line_no # 0 /\ IsBlank(line) /\ ~IsLineSplitter(splitter)
       THEN /\ blanks' = IF Len(sentence) > 0 THEN blanks + 1 ELSE blanks
            /\ UNCHANGED <<header_line, sentence, current_set, training_tokens,
                           out, emitted>>
       ELSE
         /\ header_line' = IF line_no = 0 THEN "config" ELSE header_line
         /\ IF line_no \in DOMAIN lines
            THEN /\ current_set' = lines[line_no]
                 /\ sentence' = buffered
                 /\ UNCHANGED <<blanks, training_tokens, out, emitted>>
            ELSE IF current_set # NoRange /\ line_no # current_set.end
            THEN /\ sentence' = buffered
                 /\ UNCHANGED <<blanks, current_set, training_tokens, out, emitted>>
            ELSE IF current_set # NoRange /\ line_no = current_set.end
            THEN LET unit == Strip(file, buffered) IN
                 /\ blanks' = 0
                 /\ out' = AddSentence(out, fi, current_set.dataset, unit)
                 /\ emitted' = Append(emitted,
                        [file |-> fi, lines |-> unit, dataset |-> current_set.dataset])
                 /\ training_tokens' =
                        [training_tokens EXCEPT ![current_set.dataset] = @ + Len(unit)]
                 /\ sentence' = <<>>
                 /\ UNCHANGED current_set
            ELSE UNCHANGED <<sentence, blanks, current_set, training_tokens, out,
                             emitted>>
    /\ line_no' = line_no + 1
    /\ UNCHANGED <<config, stage, pc, fi, splitter_state, unit_counts,
                   target_dataset, created_files, memory, memory_open, original,
                   yielded, post, err, err_names, rows, dispatcher, new_files,
                   test_ratio, dev_ratio>>

\* lines 284-302: the remaining sentence, _add_header, the yield
ReplayEndOfFile ==
    /\ stage = "memory" /\ pc = "replay"
    /\ line_no = Len(files[fi])
    /\ LET flush == sentence # <<>> /\ current_set # NoRange
           dataset == current_set.dataset
           tokens == IF flush
                     THEN [training_tokens EXCEPT ![dataset] = @ + Len(sentence)]
                     ELSE training_tokens
           written == IF flush THEN AddSentence(out, fi, dataset, sentence) ELSE out
       IN
       /\ emitted' = IF flush
                     THEN Append(emitted,
                                 [file |-> fi, lines |-> sentence, dataset |-> dataset])
                     ELSE emitted
       /\ training_tokens' = tokens
       /\ out' = AddHeader(written, fi, tokens, header_line)
       /\ created_files' = HeaderTargets(tokens)
       /\ yielded' = Append(yielded, [file |-> fi, tokens |-> tokens])
    /\ pc' = "yielded"
    /\ UNCHANGED <<config, stage, fi, splitter_state, unit_counts, target_dataset,
                   sentence, blanks, line_no, header_line, memory, memory_open,
                   original, post, err, err_names, rows, dispatcher, current_set,
                   new_files, test_ratio, dev_ratio>>

\* the values files_from_memory may be given as test_ratio
RatioArgs == {"None", "zero", "positive"}

\* the dev_ratio that comes with a test_ratio: both ratios are given or
\* neither is, and test_ratio = 0 comes with dev_ratio > 0
DevRatioWith(ratio) == IF ratio = "None" THEN "None" ELSE "positive"

\* (faulty variant: only a ratio of zero counts as missing, None is let through)
RatioMissingOnlyZero(ratio) == ratio = "zero"

\* if not test_ratio
RatioMissing(ratio) == ratio \in {"None", "zero"}

\* the consumer asks for the next element: lines 304-307, then the next
\* file of the loop (lines 234-249) or, after the last, lines 309-314
ResumeReplay ==
    /\ stage = "memory" /\ pc = "yielded"
    /\ post' = ApplyPost(post, fi, created_files)
    /\ IF fi < Len(files)
       THEN /\ fi' = fi + 1
            /\ new_files' = NewFilesAt(fi + 1, dispatcher, new_files)
            /\ pc' = "replay"
            /\ UNCHANGED <<stage, err, err_names, test_ratio, dev_ratio>>
       ELSE /\ UNCHANGED new_files
            /\ IF new_files = <<>>
               THEN /\ pc' = "done"
                    /\ UNCHANGED <<stage, fi, err, err_names, test_ratio, dev_ratio>>
               ELSE \E ratio \in RatioArgs :
                    /\ test_ratio' = ratio
                    /\ dev_ratio' = DevRatioWith(ratio)
                    /\ IF RatioMissing(ratio)
                       THEN /\ pc' = "error"
                            /\ err' = "ConfigError"
                            /\ err_names' = {}
                            /\ UNCHANGED <<stage, fi>>
                       ELSE /\ stage' = "new"
                            /\ fi' = 1
                            /\ pc' = "dispatch"
                            /\ UNCHANGED <<err, err_names>>
    /\ training_tokens' = ZeroTokens
    /\ header_line' = "empty"
    /\ created_files' = {}
    /\ sentence' = <<>>
    /\ blanks' = 0
    /\ current_set' = NoRange
    /\ line_no' = 0
    /\ UNCHANGED <<config, splitter_state, unit_counts, target_dataset, memory,
                   memory_open, out, emitted, original, yielded, rows, dispatcher>>

Next ==
    \/ SplitFilesStart
    \/ Pass1
    \/ Pass2Line
    \/ EndOfFile
    \/ ResumeDispatch
    \/ ConsumerStops
    \/ MemoryFileGiven
    \/ FilesFromMemoryStart
    \/ ReplayLine
    \/ ReplayEndOfFile
    \/ ResumeReplay

Spec == Init /\ [][Next]_vars


\* ===================================================================== claims
\* the units a history holds for file f, in emission order, each as its
\* non-blank lines and its dataset
RECURSIVE UnitsOf(_, _)
UnitsOf(history, f) ==
    IF history = <<>> THEN <<>>
    ELSE (IF Head(history).file = f
          THEN <<[lines |-> Strip(files[f], Head(history).lines),
                  dataset |-> Head(history).dataset]>>
          ELSE <<>>) \o UnitsOf(Tail(history), f)

\* how many elements of a yielded sequence are about file f
YieldsOf(elements, f) == Cardinality({i \in 1..Len(elements) : elements[i].file = f})

\* the content lines of a file that are not blank, the header line left out
NonEmptyContent(file) ==
    Cardinality({n \in 0..(Len(file) - 1) :
                    ~HeaderSkipped(n, has_header) /\ ~IsBlank(file[n + 1])})

\* the replay loop of files_from_memory is through with file f
Replayed(f) ==
    \/ stage = "new"
    \/ /\ stage = "memory"
       /\ \/ pc = "done"
          \/ pc \in {"replay", "yielded", "stopped"} /\ fi > f
          \/ pc \in {"yielded", "stopped"} /\ fi = f
          \/ pc = "error" /\ err = "ConfigError"

\* the replay works on the log exactly as split_files wrote it
LogIntact == dispatcher = BuildIndex(memory, 1, [f \in FileIds |-> <<>>]).index

\* C1: dispatch followed by replay is a round trip: a file that split_files
\* dispatched gets, from the replay of its unchanged log, the same units (the
\* same non-blank lines under the same dataset) as in the original run.
C1_RoundTrip ==
    \A f \in FileIds :
        (Replayed(f) /\ LogIntact /\ YieldsOf(original.yielded, f) = 1)
            => UnitsOf(emitted, f) = UnitsOf(original.units, f)

\* C2: when _single_file_dispatch has finished a file, train + dev + test of
\* its tally is the number of non-empty content lines of the file.
C2_TallyCountsContent ==
    (stage \in {"split", "new"} /\ pc = "yielded")
        => training_tokens["train"] + training_tokens["dev"] + training_tokens["test"]
               = NonEmptyContent(files[CurFile])

\* pass 2 has a line before it that completes a unit
UnitCompletes ==
    /\ stage \in {"split", "new"} /\ pc = "pass2"
    /\ line_no < Len(files[CurFile])
    /\ ~HeaderSkipped(line_no, has_header)
    /\ ~(line_no # 0 /\ IsBlank(files[CurFile][line_no + 1]) /\ ~IsLineSplitter(splitter))
    /\ SplitterCall(splitter, splitter_state, files[CurFile][line_no + 1]).fire

\* C3: a unit that completes in pass 2 while the dispatch list is empty is
\* emitted under train and the run goes on without an error.
C3_ExhaustedPlanFallsBackToTrain ==
    [][(UnitCompletes /\ target_dataset = <<>>)
         => /\ err' = "none"
            /\ pc' = "pass2"
            /\ Len(emitted') = Len(emitted) + 1
            /\ emitted'[Len(emitted')].dataset = "train"]_vars

\* a row of the log that is malformed: wrong arity, or a range that is no
\* pair of integers
Malformed(row) == row.arity \notin {0, 3} \/ ~RangeParses(row.line_range)

\* C4: the replay skips a malformed row of the log: it indexes the other
\* rows and goes on without raising.
C4_MalformedRowSkipped ==
    [][(stage = "given" /\ \E i \in 1..Len(rows) : Malformed(rows[i]))
         => /\ err' = "none"
            /\ dispatcher' = BuildIndex(SelectSeq(rows, LAMBDA r : ~Malformed(r)), 1,
                                        [f \in FileIds |-> <<>>]).index]_vars


Range(seq) == {seq[i] : i \in 1..Len(seq)}

IsPrefix(s, t) == Len(s) <= Len(t) /\ SubSeq(t, 1, Len(s)) = s

\* C5 (as claimed): a replay that finds a file without a record and is given
\* no ratios ends with a ConfigError that names the new file.
C5_ConfigErrorNamesNewFile ==
    (stage = "memory" /\ err = "ConfigError" /\ test_ratio = "None")
        => err_names \cap Range(new_files) # {}

\* C5 (amended): a replay that finds a file without a record and is given no
\* ratios ends with a ConfigError, raised after the replay loop has yielded
\* one element for every file; its message is a fixed text that names no
\* file.  A replay never ends normally in the replay loop with a new file.
C5_ConfigErrorAfterLoop ==
    /\ test_ratio = "None"
         => /\ stage = "memory" /\ pc = "error" /\ err = "ConfigError"
            /\ new_files # <<>>
            /\ err_names = {}
            /\ \A f \in FileIds : YieldsOf(yielded, f) = 1
    /\ (stage = "memory" /\ pc = "done") => new_files = <<>>

\* C5 witness: of two files one is in the log and one is new, no ratios are
\* given, and the run has ended with the ConfigError.
C5_Witness ==
    /\ stage = "memory" /\ err = "ConfigError" /\ test_ratio = "None"
    /\ Len(files) = 2 /\ Len(new_files) = 1
    /\ \E f \in FileIds : DOMAIN dispatcher[f] # {}

\* C6: split_files and files_from_memory, run to their end, have yielded
\* exactly one element for every file of the configuration.
C6_OneElementPerFile ==
    pc = "done" => \A f \in FileIds : YieldsOf(yielded, f) = 1

\* how often the header line stands in an output file
HeaderCount(lines) == Cardinality({i \in 1..Len(lines) : lines[i] < 0})

\* C7: with a declared header, line 0 is no unit and no content in either
\* pass (it is not counted, buffered, emitted or written), and once a file
\* is processed each of its output files with a non-zero tally starts with
\* the header line, which stands in it exactly once.
C7_HeaderOnceAndFirst ==
    has_header =>
        /\ (stage \in {"split", "new"} /\ pc = "pass2")
              => unit_counts <= Len(files[CurFile]) - 1
        /\ 0 \notin Range(sentence)
        /\ \A i \in 1..Len(emitted) : 0 \notin Range(emitted[i].lines)
        /\ \A f \in FileIds : \A d \in Labels : 0 \notin Range(out[f][d])
        /\ \A i \in 1..Len(yielded) : \A d \in Labels :
              yielded[i].tokens[d] # 0
                  => /\ out[yielded[i].file][d][1] = HeaderMark("mapped")
                     /\ HeaderCount(out[yielded[i].file][d]) = 1
                     /\ Len(out[yielded[i].file][d]) = 1 + yielded[i].tokens[d]

\* C7 witness: a file with a header has been processed and two of its output
\* files have a tally.
C7_Witness ==
    /\ has_header /\ pc = "yielded"
    /\ Cardinality(HeaderTargets(training_tokens)) = 2

\* the range a row of the log written by the dispatch records
RowStart(row) == row.line_range[1]
RowEnd(row) == row.line_range[2]
\* the units of the split_files run, in the order of the rows of its log
SplitUnits == IF stage \in {"split", "given"} THEN emitted ELSE original.units

\* C8: the records written for one file have pairwise disjoint inclusive
\* 0-based ranges; the range of a record holds every content line of its
\* unit, starts at the unit's first buffered line (only blank lines stand
\* between the start and the unit's first content line) and holds no content
\* line of another unit; the header line is in no range.
C8_RangesDisjointAndCovering ==
    /\ Len(memory) = Len(SplitUnits)
    /\ \A i \in 1..Len(memory) :
         LET row == memory[i]
             unit == SplitUnits[i]
             file == files[row.file]
         IN  /\ RangeParses(row.line_range)
             /\ RowStart(row) <= RowEnd(row) /\ RowEnd(row) < Len(file)
             /\ unit.file = row.file
             /\ \A n \in Range(unit.lines) : RowStart(row) <= n /\ n <= RowEnd(row)
             /\ has_header => RowStart(row) >= 1
             /\ \A n \in RowStart(row)..RowEnd(row) :
                  ~IsBlank(file[n + 1]) => n \in Range(unit.lines)
             /\ \A j \in 1..Len(memory) :
                  (j > i /\ memory[j].file = row.file) => RowEnd(row) < RowStart(memory[j])

\* C8 witness: a file with a header has a record whose range spans a blank
\* line inside the unit.
C8_Witness ==
    /\ has_header
    /\ \E i \in 1..Len(memory) :
         /\ RowStart(memory[i]) < RowEnd(memory[i])
         /\ \E n \in RowStart(memory[i])..RowEnd(memory[i]) :
              IsBlank(files[memory[i].file][n + 1])

\* C9: when the consumer has stopped, every file of which a unit was written
\* has its header attached and its post-processing applied to each of its
\* output files.
C9_StopLeavesNoPartialFile ==
    pc = "stopped"
        => \A f \in FileIds : \A d \in Labels :
              out[f][d] # <<>>
                  => HeaderCount(out[f][d]) = 1 /\ post[f][d] = Postprocessings

ContentOf(lines) == SelectSeq(lines, LAMBDA n : n >= 0)

\* line numbers in the order of the source file
Increasing(seq) == \A i \in 1..Len(seq) : \A j \in 1..Len(seq) : i < j => seq[i] < seq[j]

\* C11: in the dispatch and in the replay alike, the lines of a unit keep
\* the order of the source file, two units of one file written to the same
\* dataset are written in the order they have in the source file, and so the
\* content of every output file is in source order.
C11_SourceOrderKept ==
    /\ \A i \in 1..Len(emitted) : Increasing(emitted[i].lines)
    /\ \A i \in 1..Len(emitted) : \A j \in 1..Len(emitted) :
         (i < j /\ emitted[i].file = emitted[j].file
                /\ emitted[i].dataset = emitted[j].dataset)
            => \A m \in Range(emitted[i].lines) : \A n \in Range(emitted[j].lines) : m < n
    /\ \A f \in FileIds : \A d \in Labels : Increasing(ContentOf(out[f][d]))

\* C11 witness: the dispatch wrote two units of a file to one dataset, and
\* the replay has written two lines of that file to that dataset.
C11_Witness ==
    /\ stage = "memory"
    /\ \E f \in FileIds : \E d \in Labels :
         /\ Len(ContentOf(out[f][d])) = 2
         /\ \E i \in 1..Len(original.units) : \E j \in 1..Len(original.units) :
              /\ i < j
              /\ original.units[i].file = f /\ original.units[j].file = f
              /\ original.units[i].dataset = d /\ original.units[j].dataset = d

\* C12: pass 2 completes as many units as pass 1 counted: the dispatch list
\* is never found empty by a completed unit, and when the lines of the file
\* are read (before the remaining sentence is looked at) every entry of the
\* list has been taken.
C12_PlanConsumedExactly ==
    /\ err # "IndexError"
    /\ (stage \in {"split", "new"} /\ pc = "pass2" /\ line_no = Len(files[CurFile]))
          => target_dataset = <<>>

\* C13: the splitter is in its reset state when pass 1 of a file begins and
\* when pass 2 of a file begins, whatever the files before it were.
C13_SplitterResetBeforeEachPass ==
    (stage \in {"split", "new"}
        /\ \/ pc = "dispatch"
           \/ pc = "pass2" /\ line_no = 0)
        => splitter_state = SplitterReset

\* the replay loop is about to read a line that it neither takes as the
\* header nor skips as a blank line
ReplayReadsLine ==
    /\ stage = "memory" /\ pc = "replay"
    /\ line_no < Len(files[fi])
    /\ ~HeaderSkipped(line_no, has_header)
    /\ ~(line_no # 0 /\ IsBlank(files[fi][line_no + 1]) /\ ~IsLineSplitter(splitter))

\* the starts of the logged ranges of the file being replayed that end at
\* the line about to be read
RangesEndingHere ==
    {s \in DOMAIN dispatcher[fi] : s <= line_no /\ dispatcher[fi][s].end = line_no}

\* the line numbers start..end, in order
LinesOf(start, end) == [i \in 1..(end - start + 1) |-> start + i - 1]

\* C14: when the replay reads the line on which a logged range [start, end]
\* ends (start = end included), it emits one unit under the label of the
\* range, made of exactly the non-blank lines of start..end, and leaves the
\* buffer empty.
C14_RangeFinalizedAtEnd ==
    [][(ReplayReadsLine /\ RangesEndingHere # {})
         => LET start == CHOOSE s \in RangesEndingHere : TRUE IN
            /\ emitted' = Append(emitted,
                            [file |-> fi,
                             lines |-> Strip(files[fi], LinesOf(start, line_no)),
                             dataset |-> dispatcher[fi][start].dataset])
            /\ sentence' = <<>>]_vars

\* _single_file_dispatch has read the last line of its file and still holds
\* buffered lines
RemainingSentence ==
    /\ stage \in {"split", "new"} /\ pc = "pass2"
    /\ line_no = Len(files[CurFile])
    /\ sentence # <<>>

\* C15: at the end of a file whose buffer is not empty, _single_file_dispatch
\* emits the buffer as one unit, once, under the head of the dispatch list if
\* the list has an entry and under train otherwise; it adds the lines of the
\* buffer to the tally of that label, takes the entry off the list, and
\* writes exactly one record for the unit if it has a log (none otherwise).
C15_RemainingSentenceEmittedOnce ==
    [][RemainingSentence
         => LET dataset == IF target_dataset = <<>> THEN "train" ELSE target_dataset[1] IN
            /\ emitted' = Append(emitted,
                            [file |-> CurFile, lines |-> sentence, dataset |-> dataset])
            /\ ContentOf(out'[CurFile][dataset])
                 = ContentOf(out[CurFile][dataset]) \o sentence
            /\ \A d \in Labels :
                 training_tokens'[d] = training_tokens[d]
                                         + (IF d = dataset THEN Len(sentence) ELSE 0)
            /\ Len(target_dataset') = (IF target_dataset = <<>> THEN 0
                                       ELSE Len(target_dataset) - 1)
            /\ IF HasMemory
               THEN /\ Len(memory') = Len(memory) + 1
                    /\ IsPrefix(memory, memory')
                    /\ memory'[Len(memory')].arity = 3
                    /\ memory'[Len(memory')].file = CurFile
                    /\ memory'[Len(memory')].dataset = dataset
               ELSE memory' = memory
            /\ pc' = "yielded" /\ err' = "none"]_vars

\* C15 witness: split_files has flushed the remaining sentence of a file
\* under a dispatch list entry that is not train, and the log has its record.
C15_Witness ==
    /\ stage = "split" /\ pc = "yielded"
    /\ sentence # <<>>
    /\ emitted # <<>> /\ memory # <<>>
    /\ emitted[Len(emitted)].lines = sentence
    /\ emitted[Len(emitted)].dataset # "train"
    /\ memory[Len(memory)].dataset = emitted[Len(emitted)].dataset
    /\ training_tokens[emitted[Len(emitted)].dataset] >= Len(sentence)

\* C16: a replay that finds a new file and was given both ratios, test_ratio
\* = 0 with dev_ratio > 0 included, raises no ConfigError and dispatches the
\* new file with _single_file_dispatch.
C16_GivenRatiosDispatchNewFile ==
    (test_ratio \in {"zero", "positive"} /\ dev_ratio = "positive")
        => /\ err # "ConfigError"
           /\ stage = "new"

\* a row of the log that unpacks and parses but names a path that no file
\* of the configuration resolves to
UnknownPath(row) ==
    row.arity = 3 /\ RangeParses(row.line_range) /\ row.file \notin FileIds

\* C17: a replay whose log is well-formed and holds a row with a path that
\* no configured file resolves to does not abort on it and indexes the other
\* rows as if it were not there: every range of the index comes from a row
\* of that file, and every row of a configured file has its range and label
\* in the index of its file.
C17_UnknownPathRowIgnored ==
    [][(/\ stage = "given"
        /\ \A i \in 1..Len(rows) : ~Malformed(rows[i])
        /\ \E i \in 1..Len(rows) : UnknownPath(rows[i]))
         => /\ err' = "none" /\ pc' = "replay"
            /\ DOMAIN dispatcher' = FileIds
            /\ \A f \in FileIds : \A s \in DOMAIN dispatcher'[f] :
                 \E i \in 1..Len(rows) :
                    /\ rows[i].arity = 3 /\ rows[i].file = f
                    /\ RowStart(rows[i]) = s
                    /\ RowEnd(rows[i]) = dispatcher'[f][s].end
                    /\ rows[i].dataset = dispatcher'[f][s].dataset
            /\ \A i \in 1..Len(rows) :
                 (rows[i].arity = 3 /\ rows[i].file \in FileIds)
                    => /\ RowStart(rows[i]) \in DOMAIN dispatcher'[rows[i].file]
                       /\ dispatcher'[rows[i].file][RowStart(rows[i])]
                            = [end |-> RowEnd(rows[i]), dataset |-> rows[i].dataset]]_vars

\* C17 witness: of two files that split_files wrote records for, the replay
\* runs with the ranges of one and without a range of the other: the row of
\* the other names an unknown path.
C17_Witness ==
    /\ stage = "memory" /\ pc = "replay" /\ err = "none"
    /\ Len(memory) = 2 /\ memory[1].file # memory[2].file
    /\ \E i \in 1..2 :
         /\ DOMAIN dispatcher[memory[i].file] = {}
         /\ DOMAIN dispatcher[memory[3 - i].file] = {RowStart(memory[3 - i])}

\* C18: split_files with a log has the log file open from before the first
\* file until the run ends, and closed once the run has ended: at
\* exhaustion, when the consumer has stopped, and after an error.
C18_LogClosedWhenRunEnds ==
    stage = "split"
        => /\ pc \in {"dispatch", "pass2", "yielded"} => memory_open
           /\ pc \in {"done", "stopped", "error"} => ~memory_open

\* C19: every line the replay has emitted for a file under a dataset lies in
\* a range of the index of that file whose label is that dataset; a line in
\* no range of the index is in no emitted unit.
C19_EmittedLinesLieInLabelledRange ==
    stage = "memory"
        => \A i \in 1..Len(emitted) : \A n \in Range(emitted[i].lines) :
              \E s \in DOMAIN dispatcher[emitted[i].file] :
                 /\ s <= n /\ n <= dispatcher[emitted[i].file][s].end
                 /\ dispatcher[emitted[i].file][s].dataset = emitted[i].dataset

====
